---------------------------- MODULE Spec2Model ----------------------------
(***************************************************************************)
(* A model of src/ssml.py: parseSSML (preprocessing, the XML parse of the  *)
(* wrapped text, the dialect's structural checks, the rebuild of the       *)
(* SSMLTag/SSMLText tree) and ssmlNodeToText.                               *)
(*                                                                         *)
(* A Python str is a sequence of one-character strings.  None and the      *)
(* empty str are both the empty sequence where the code only tests their   *)
(* truth value (elem.text, child.tail).                                    *)
(***************************************************************************)
EXTENDS Integers, Sequences, FiniteSets, TLC

(***************************************************************************)
(* Characters                                                              *)
(***************************************************************************)
\* Python's whitespace, as \s of a str pattern and as str.strip() see it
\* (the members a TLA+ string can spell)
PySpace == {" ", "\t", "\n", "\r", "\f"}

\* XML's white space S: space, tab, line feed (carriage returns are
\* translated to line feeds before the parse)
XmlSpace == {" ", "\t", "\n"}

Lower == {"a","b","c","d","e","f","g","h","i","j","k","l","m",
          "n","o","p","q","r","s","t","u","v","w","x","y","z"}

Upper == {"A","B","C","D","E","F","G","H","I","J","K","L","M",
          "N","O","P","Q","R","S","T","U","V","W","X","Y","Z"}

Digit == {"0","1","2","3","4","5","6","7","8","9"}

\* the class [A-Za-z0-9_\-\.] of attr_colon_pattern
ColonNameChar == Lower \cup Upper \cup Digit \cup {"_", "-", "."}

\* XML NameStartChar and NameChar (ASCII part)
XmlNameStart == Lower \cup Upper \cup {"_", ":"}

XmlNameChar == XmlNameStart \cup Digit \cup {"-", "."}

(***************************************************************************)
(* str helpers                                                             *)
(***************************************************************************)
MinOf(S) == CHOOSE x \in S : \A y \in S : x <= y

MaxOf(S) == CHOOSE x \in S : \A y \in S : y <= x

\* s[i:] with a 1-based i
From(s, i) == SubSeq(s, i, Len(s))

\* s.startswith(p, i-1)
StartsAt(s, i, p) ==
    /\ i + Len(p) - 1 <= Len(s)
    /\ \A k \in 1..Len(p) : s[i + k - 1] = p[k]

\* the first index >= i whose character is not in the class cls (Len(s)+1
\* when the run reaches the end)
RunEnd(s, i, cls) ==
    IF \E j \in i..Len(s) : s[j] \notin cls
    THEN MinOf({j \in i..Len(s) : s[j] \notin cls})
    ELSE Len(s) + 1

\* the first index >= i whose character is in the class cls (Len(s)+1 when
\* there is none)
StopIdx(s, i, cls) ==
    IF \E j \in i..Len(s) : s[j] \in cls
    THEN MinOf({j \in i..Len(s) : s[j] \in cls})
    ELSE Len(s) + 1

\* the first index >= i whose character is c, 0 when there is none
IndexOf(s, i, c) ==
    IF \E j \in i..Len(s) : s[j] = c
    THEN MinOf({j \in i..Len(s) : s[j] = c})
    ELSE 0

\* str.strip() != ""
NonBlank(s) == \E i \in 1..Len(s) : s[i] \notin PySpace

RECURSIVE Concat(_)
\* "".join(parts)
Concat(parts) ==
    IF parts = <<>> THEN <<>> ELSE Head(parts) \o Concat(Tail(parts))

RECURSIVE str_replace(_, _, _)
\* str.replace(old, new): leftmost, non-overlapping
str_replace(s, old, new) ==
    IF s = <<>> THEN <<>>
    ELSE IF StartsAt(s, 1, old)
         THEN new \o str_replace(From(s, Len(old) + 1), old, new)
         ELSE <<Head(s)>> \o str_replace(Tail(s), old, new)

(***************************************************************************)
(* Preprocessing                                                           *)
(***************************************************************************)
\* the search without its \s*: only a quote right after the '='
HasSingleQuotedAttr_NoBlanks(s) ==
    \E i \in 1..(Len(s) - 1) :
        s[i] = "=" /\ s[i + 1] = "'" /\ IndexOf(s, i + 2, "'") # 0

\* "'" in ssml and re.search(r"=\s*'[^']*'", ssml)
HasSingleQuotedAttr(s) ==
    /\ \E i \in 1..Len(s) : s[i] = "'"
    /\ \E i \in 1..Len(s) :
          /\ s[i] = "="
          /\ LET j == RunEnd(s, i + 1, PySpace)
             IN  /\ j <= Len(s)
                 /\ s[j] = "'"
                 /\ IndexOf(s, j + 1, "'") # 0

\* re.sub(r'^<\s+', '<', tag)
StripAfterOpen(tag) ==
    IF Len(tag) >= 2 /\ tag[1] = "<" /\ tag[2] \in PySpace
    THEN <<"<">> \o From(tag, RunEnd(tag, 2, PySpace))
    ELSE tag

\* re.sub(r'^</\s+', '</', tag)
StripAfterClose(tag) ==
    IF Len(tag) >= 3 /\ tag[1] = "<" /\ tag[2] = "/" /\ tag[3] \in PySpace
    THEN <<"<", "/">> \o From(tag, RunEnd(tag, 3, PySpace))
    ELSE tag

\* re.sub(r'\s+>$', '>', tag): the whitespace run that ends at the final '>'
StripBeforeEnd(tag) ==
    LET n == Len(tag)
    IN  IF n >= 2 /\ tag[n] = ">" /\ tag[n - 1] \in PySpace
        THEN LET b == MaxOf({j \in 0..(n - 1) : j = 0 \/ tag[j] \notin PySpace})
             IN  SubSeq(tag, 1, b) \o <<">">>
        ELSE tag

\* re.sub(r'<(/?)(\S+)\s+', '<\1\2 ', tag, count=1): the leftmost '<' that is
\* followed by a run of non-blanks and then by a run of blanks; that run of
\* blanks becomes one space
CollapseAfterName(tag) ==
    LET n == Len(tag)
        starts == {k \in 1..n :
                     /\ tag[k] = "<"
                     /\ k + 1 <= n
                     /\ tag[k + 1] \notin PySpace
                     /\ \E j \in (k + 2)..n : tag[j] \in PySpace}
    IN  IF starts = {} THEN tag
        ELSE LET k == MinOf(starts)
                 e == MinOf({j \in (k + 2)..n : tag[j] \in PySpace})
                 f == RunEnd(tag, e, PySpace)
             IN  SubSeq(tag, 1, e - 1) \o <<" ">> \o From(tag, f)

\* fix_tag(match)
fix_tag(tag) ==
    CollapseAfterName(StripBeforeEnd(StripAfterClose(StripAfterOpen(tag))))

RECURSIVE NormalizeFrom(_, _)
\* re.sub(r'<[^>]+>', fix_tag, s) from index i on: a match is a '<', at least
\* one character other than '>', and the first '>' after them
NormalizeFrom(s, i) ==
    IF i > Len(s) THEN <<>>
    ELSE LET j == IndexOf(s, i + 2, ">")
         IN  IF s[i] = "<" /\ i + 1 <= Len(s) /\ s[i + 1] # ">" /\ j # 0
             THEN fix_tag(SubSeq(s, i, j)) \o NormalizeFrom(s, j + 1)
             ELSE <<s[i]>> \o NormalizeFrom(s, i + 1)

\* _normalize_tag_whitespace(s)
normalize_tag_whitespace(s) == NormalizeFrom(s, 1)

\* placeholder = "__COLON__"
placeholder == <<"_", "_", "C", "O", "L", "O", "N", "_", "_">>

\* the end (exclusive) of a match of attr_colon_pattern that starts at i, 0
\* when there is none; with the indices of the colon and of the '='
ColonMatch(s, i) ==
    LET c  == RunEnd(s, i, ColonNameChar)
        e2 == RunEnd(s, c + 1, ColonNameChar)
        q  == RunEnd(s, e2, PySpace)
    IN  IF /\ c > i /\ c <= Len(s) /\ s[c] = ":"
           /\ e2 > c + 1
           /\ q <= Len(s) /\ s[q] = "="
        THEN [colon |-> c, nameEnd |-> e2, eq |-> q]
        ELSE [colon |-> 0, nameEnd |-> 0, eq |-> 0]

RECURSIVE EscapeFrom(_, _)
\* attr_colon_pattern.sub(r'\1' + placeholder + r'\2=', s) from index i on
EscapeFrom(s, i) ==
    IF i > Len(s) THEN <<>>
    ELSE LET m == ColonMatch(s, i)
         IN  IF m.colon # 0
             THEN SubSeq(s, i, m.colon - 1) \o placeholder
                    \o SubSeq(s, m.colon + 1, m.nameEnd - 1) \o <<"=">>
                    \o EscapeFrom(s, m.eq + 1)
             ELSE <<s[i]>> \o EscapeFrom(s, i + 1)

\* replaced = attr_colon_pattern.sub(..., normalized)
escape_colon_names(s) == EscapeFrom(s, 1)

(***************************************************************************)
(* ET.fromstring: the namespace-aware XML parser the code calls.  Elements, *)
(* attributes, character data and references are modelled; comments,       *)
(* CDATA sections, processing instructions and DOCTYPE are not (their      *)
(* delimiters are outside the inputs' alphabet).  An element is            *)
(* [tag, attrib, text, children, tail]; attrib is the sequence of          *)
(* <<key, value>> in document order; any error is ok = FALSE (ParseError). *)
(***************************************************************************)
Fail == [ok |-> FALSE]

\* the five entities XML predefines
XmlEntities ==
    (<<"a","m","p">> :> "&") @@ (<<"l","t">> :> "<") @@ (<<"g","t">> :> ">")
      @@ (<<"q","u","o","t">> :> "\"") @@ (<<"a","p","o","s">> :> "'")

\* chr(n) for the code points the model spells
CharOfCode ==
    (9 :> "\t") @@ (10 :> "\n") @@ (12 :> "\f") @@ (13 :> "\r") @@ (32 :> " ")
      @@ (34 :> "\"")
      @@ (35 :> "#") @@ (38 :> "&") @@ (39 :> "'") @@ (59 :> ";")
      @@ (60 :> "<") @@ (62 :> ">")

\* code points below 32 that are XML characters
XmlControlOk == {9, 10, 13}

HexDigit == Digit \cup {"a","b","c","d","e","f","A","B","C","D","E","F"}

DigitVal ==
    ("0" :> 0) @@ ("1" :> 1) @@ ("2" :> 2) @@ ("3" :> 3) @@ ("4" :> 4)
      @@ ("5" :> 5) @@ ("6" :> 6) @@ ("7" :> 7) @@ ("8" :> 8) @@ ("9" :> 9)
      @@ ("a" :> 10) @@ ("b" :> 11) @@ ("c" :> 12) @@ ("d" :> 13)
      @@ ("e" :> 14) @@ ("f" :> 15) @@ ("A" :> 10) @@ ("B" :> 11)
      @@ ("C" :> 12) @@ ("D" :> 13) @@ ("E" :> 14) @@ ("F" :> 15)

RECURSIVE NumVal(_, _)
\* int(digits, base)
NumVal(digits, base) ==
    IF digits = <<>> THEN 0
    ELSE NumVal(SubSeq(digits, 1, Len(digits) - 1), base) * base
           + DigitVal[digits[Len(digits)]]

\* the reference that starts with the '&' at index i: [ok, pos, ch]
XmlReference(s, i) ==
    LET semi == IndexOf(s, i + 1, ";")
        body == SubSeq(s, i + 1, semi - 1)
        hex  == Len(body) >= 3 /\ body[2] = "x"
                  /\ \A k \in 3..Len(body) : body[k] \in HexDigit
        dec  == Len(body) >= 2 /\ \A k \in 2..Len(body) : body[k] \in Digit
        code == IF hex THEN NumVal(From(body, 3), 16) ELSE NumVal(Tail(body), 10)
    IN  IF semi = 0 \/ body = <<>> THEN Fail
        ELSE IF body \in DOMAIN XmlEntities
        THEN [ok |-> TRUE, pos |-> semi + 1, ch |-> XmlEntities[body]]
        ELSE IF body[1] = "#" /\ (hex \/ dec)
        THEN IF code < 32 /\ code \notin XmlControlOk THEN Fail
             ELSE [ok |-> TRUE, pos |-> semi + 1, ch |-> CharOfCode[code]]
        ELSE Fail

\* c followed by the rest of a value, when the rest is one
ValueCons(c, rest) ==
    IF rest.ok THEN [ok |-> TRUE, val |-> <<c>> \o rest.val] ELSE Fail

RECURSIVE XmlAttValue(_)
RECURSIVE ValueAfterRef(_, _)
\* the value that starts with the reference r
ValueAfterRef(raw, r) ==
    IF r.ok THEN ValueCons(r.ch, XmlAttValue(From(raw, r.pos))) ELSE Fail

\* an attribute value as the parser reports it: references replaced, literal
\* white space normalized to spaces; '<' and form feed are not allowed
XmlAttValue(raw) ==
    IF raw = <<>> THEN [ok |-> TRUE, val |-> <<>>]
    ELSE IF raw[1] \in {"<", "\f"} THEN Fail
    ELSE IF raw[1] = "&" THEN ValueAfterRef(raw, XmlReference(raw, 1))
    ELSE ValueCons(IF raw[1] \in XmlSpace THEN " " ELSE raw[1],
                   XmlAttValue(Tail(raw)))

\* a name of namespace-aware XML: at most one colon, neither first nor last
XmlQName(n) ==
    LET c == IndexOf(n, 1, ":")
    IN  /\ n # <<>>
        /\ n[1] \in XmlNameStart \ {":"}
        /\ \A k \in 1..Len(n) : n[k] \in XmlNameChar
        /\ c # 0 => /\ c < Len(n)
                    /\ n[c + 1] \in XmlNameStart \ {":"}
                    /\ IndexOf(n, c + 1, ":") = 0

Prefix(n) == SubSeq(n, 1, IndexOf(n, 1, ":") - 1)

LocalName(n) == From(n, IndexOf(n, 1, ":") + 1)

RECURSIVE XmlAttributes(_, _, _)
RECURSIVE AttributesAfter(_, _, _, _, _)
\* the attributes after the one named name, whose closing quote is at u and
\* whose value is v
AttributesAfter(s, acc, name, u, v) ==
    IF v.ok /\ \A k \in 1..Len(acc) : acc[k][1] # name
    THEN XmlAttributes(s, u + 1, Append(acc, <<name, v.val>>))
    ELSE Fail

\* the attribute whose name starts at q: Name S? '=' S? a quoted value
XmlAttribute(s, q, acc) ==
    LET e == RunEnd(s, q, XmlNameChar)
        r == RunEnd(s, e, XmlSpace)
        t == RunEnd(s, r + 1, XmlSpace)
        u == IF t <= Len(s) THEN IndexOf(s, t + 1, s[t]) ELSE 0
    IN  IF /\ XmlQName(SubSeq(s, q, e - 1))
           /\ r <= Len(s) /\ s[r] = "="
           /\ t <= Len(s) /\ s[t] \in {"\"", "'"}
           /\ u # 0
        THEN AttributesAfter(s, acc, SubSeq(s, q, e - 1), u,
                             XmlAttValue(SubSeq(s, t + 1, u - 1)))
        ELSE Fail

\* the attributes of a start tag, from index p (just after the tag name or the
\* previous attribute) to the tag's end: [ok, pos, attrs, empty]
XmlAttributes(s, p, acc) ==
    LET q == RunEnd(s, p, XmlSpace)
    IN  IF q > Len(s) THEN Fail
        ELSE IF s[q] = ">"
        THEN [ok |-> TRUE, pos |-> q + 1, attrs |-> acc, empty |-> FALSE]
        ELSE IF s[q] = "/" /\ q + 1 <= Len(s) /\ s[q + 1] = ">"
        THEN [ok |-> TRUE, pos |-> q + 2, attrs |-> acc, empty |-> TRUE]
        ELSE IF q = p \/ s[q] \notin XmlNameStart THEN Fail
        ELSE XmlAttribute(s, q, acc)

\* the namespace name bound to the prefix xml
XmlNsUri ==
    <<"h","t","t","p",":","/","/","w","w","w",".","w","3",".","o","r","g","/",
      "X","M","L","/","1","9","9","8","/","n","a","m","e","s","p","a","c","e">>

S_xml == <<"x","m","l">>

S_xmlns == <<"x","m","l","n","s">>

\* the namespace bindings in scope at the document's start
InitEnv == [default |-> <<>>, pre |-> (S_xml :> XmlNsUri)]

IsNsDecl(name) ==
    name = S_xmlns \/ (IndexOf(name, 1, ":") # 0 /\ Prefix(name) = S_xmlns)

RECURSIVE NsDeclare(_, _)
\* the bindings in scope inside an element with these attributes
NsDeclare(env, attrs) ==
    IF attrs = <<>> THEN env
    ELSE LET name == Head(attrs)[1]
             uri  == Head(attrs)[2]
         IN  IF name = S_xmlns
             THEN NsDeclare([env EXCEPT !.default = uri], Tail(attrs))
             ELSE IF IsNsDecl(name)
             THEN NsDeclare([env EXCEPT !.pre = (LocalName(name) :> uri) @@ @],
                            Tail(attrs))
             ELSE NsDeclare(env, Tail(attrs))

\* a declaration the parser refuses: an undeclared prefix, the prefix xml
NsDeclsOk(attrs) ==
    \A k \in 1..Len(attrs) :
        LET name == attrs[k][1]
        IN  (IsNsDecl(name) /\ name # S_xmlns) =>
              (attrs[k][2] # <<>> /\ LocalName(name) \notin {S_xml, S_xmlns})

\* every prefix used by the element or its attributes is bound
NsBound(env, name, attrs) ==
    /\ IndexOf(name, 1, ":") # 0 => Prefix(name) \in DOMAIN env.pre
    /\ \A k \in 1..Len(attrs) :
          (IndexOf(attrs[k][1], 1, ":") # 0 /\ ~IsNsDecl(attrs[k][1]))
             => Prefix(attrs[k][1]) \in DOMAIN env.pre

\* "{uri}local", the universal name ElementTree reports
Universal(uri, local) == <<"{">> \o uri \o <<"}">> \o local

ElemTag(env, name) ==
    IF IndexOf(name, 1, ":") # 0
    THEN Universal(env.pre[Prefix(name)], LocalName(name))
    ELSE IF env.default # <<>> THEN Universal(env.default, name)
    ELSE name

AttrKey(env, name) ==
    IF IndexOf(name, 1, ":") # 0
    THEN Universal(env.pre[Prefix(name)], LocalName(name))
    ELSE name

RECURSIVE ElemAttrib(_, _)
\* elem.attrib: the attributes that are not namespace declarations
ElemAttrib(env, attrs) ==
    IF attrs = <<>> THEN <<>>
    ELSE IF IsNsDecl(Head(attrs)[1]) THEN ElemAttrib(env, Tail(attrs))
    ELSE <<<<AttrKey(env, Head(attrs)[1]), Head(attrs)[2]>>>>
           \o ElemAttrib(env, Tail(attrs))

NoDuplicateKeys(attrib) ==
    \A j, k \in 1..Len(attrib) : attrib[j][1] = attrib[k][1] => j = k

\* the character c appended to the text in progress: the element's text
\* before its first child, the last child's tail after it
AddChar(st, c) ==
    IF st.children = <<>> THEN [st EXCEPT !.text = Append(@, c)]
    ELSE [st EXCEPT !.children[Len(st.children)].tail = Append(@, c)]

\* an element as ElementTree holds it
Element(tag, attrib, text, children) ==
    [tag |-> tag, attrib |-> attrib, text |-> text, children |-> children,
     tail |-> <<>>]

RECURSIVE XmlElement(_, _, _)
RECURSIVE XmlContent(_, _, _, _)
RECURSIVE ContentAfterElement(_, _, _, _)
RECURSIVE ContentAfterReference(_, _, _, _)

\* the content after the child element r
ContentAfterElement(s, env, st, r) ==
    IF r.ok
    THEN XmlContent(s, r.pos, env, [st EXCEPT !.children = Append(@, r.elem)])
    ELSE Fail

\* the content after the reference r
ContentAfterReference(s, env, st, r) ==
    IF r.ok THEN XmlContent(s, r.pos, env, AddChar(st, r.ch)) ELSE Fail

\* the content of an element from index i to its end tag (or to the end of
\* the input): [ok, pos, text, children]
XmlContent(s, i, env, st) ==
    IF i > Len(s) \/ (s[i] = "<" /\ i + 1 <= Len(s) /\ s[i + 1] = "/")
    THEN [ok |-> TRUE, pos |-> i, text |-> st.text, children |-> st.children]
    ELSE IF s[i] = "<" THEN ContentAfterElement(s, env, st, XmlElement(s, i, env))
    ELSE IF s[i] = "&" THEN ContentAfterReference(s, env, st, XmlReference(s, i))
    ELSE IF s[i] = "\f" THEN Fail
    ELSE XmlContent(s, i + 1, env, AddChar(st, s[i]))

\* the end tag </name S? > after the content c
XmlEndTag(s, name, tag, attrib, c) ==
    IF ~c.ok THEN Fail
    ELSE LET ne == RunEnd(s, c.pos + 2, XmlNameChar)
             q  == RunEnd(s, ne, XmlSpace)
         IN  IF /\ c.pos + 1 <= Len(s)
                /\ SubSeq(s, c.pos + 2, ne - 1) = name
                /\ q <= Len(s) /\ s[q] = ">"
             THEN [ok |-> TRUE, pos |-> q + 1,
                   elem |-> Element(tag, attrib, c.text, c.children)]
             ELSE Fail

\* the element after its start tag a, with its tag and attrib resolved
XmlElementBody(s, name, a, env, tag, attrib) ==
    IF ~NoDuplicateKeys(attrib) THEN Fail
    ELSE IF a.empty
    THEN [ok |-> TRUE, pos |-> a.pos, elem |-> Element(tag, attrib, <<>>, <<>>)]
    ELSE XmlEndTag(s, name, tag, attrib,
                   XmlContent(s, a.pos, env, [text |-> <<>>, children |-> <<>>]))

\* the element in the scope env of its own namespace declarations
XmlElementIn(s, name, a, env) ==
    IF ~NsBound(env, name, a.attrs) THEN Fail
    ELSE XmlElementBody(s, name, a, env, ElemTag(env, name),
                        ElemAttrib(env, a.attrs))

\* the element named name whose start tag's attributes are a
XmlElementNamed(s, name, a, env) ==
    IF ~XmlQName(name) \/ ~a.ok THEN Fail
    ELSE IF ~NsDeclsOk(a.attrs) THEN Fail
    ELSE XmlElementIn(s, name, a, NsDeclare(env, a.attrs))

\* the element whose start tag begins with the '<' at index i: [ok, pos, elem]
XmlElement(s, i, env) ==
    XmlElementNamed(s, SubSeq(s, i + 1, RunEnd(s, i + 1, XmlNameChar) - 1),
                    XmlAttributes(s, RunEnd(s, i + 1, XmlNameChar), <<>>), env)

RECURSIVE XmlNewlines(_)
\* the parser's end-of-line handling: "\r\n" and a lone "\r" become "\n"
XmlNewlines(s) ==
    IF s = <<>> THEN <<>>
    ELSE IF s[1] = "\r"
    THEN <<"\n">> \o XmlNewlines(IF Len(s) >= 2 /\ s[2] = "\n"
                                 THEN From(s, 3) ELSE Tail(s))
    ELSE <<s[1]>> \o XmlNewlines(Tail(s))

\* the document whose document element is r: after it only white space
XmlDocument(s, r) ==
    IF r.ok /\ \A k \in r.pos..Len(s) : s[k] \in XmlSpace
    THEN [ok |-> TRUE, elem |-> r.elem]
    ELSE Fail

\* the parse of the text with its ends of lines translated
XmlParse(s) ==
    IF s = <<>> \/ s[1] # "<" THEN Fail
    ELSE XmlDocument(s, XmlElement(s, 1, InitEnv))

\* ET.fromstring(text): [ok, elem]
ET_fromstring(text) == XmlParse(XmlNewlines(text))

(***************************************************************************)
(* html.unescape                                                           *)
(***************************************************************************)
\* html.entities.html5, the names the inputs can spell: with the ';', and
\* without it for the names HTML keeps for legacy reasons
Html5 ==
    (<<"a","m","p",";">> :> "&") @@ (<<"a","m","p">> :> "&")
      @@ (<<"l","t",";">> :> "<") @@ (<<"l","t">> :> "<")
      @@ (<<"g","t",";">> :> ">") @@ (<<"g","t">> :> ">")
      @@ (<<"q","u","o","t",";">> :> "\"") @@ (<<"q","u","o","t">> :> "\"")
      @@ (<<"a","p","o","s",";">> :> "'")

\* the characters that end a named reference: [^\t\n\f <&#;]
Html5NameStop == {"\t", "\n", "\f", " ", "<", "&", "#", ";"}

\* _invalid_codepoints below 32: a reference to one of them yields ''
HtmlInvalidCodepoints == (1..8) \cup {11} \cup (14..31)

\* replace_charref(s) for a named reference s (with its ';' when it has one):
\* the name itself, else its longest prefix of two characters or more that
\* is an entity, else the text unchanged
NamedCharref(name) ==
    IF name \in DOMAIN Html5 THEN <<Html5[name]>>
    ELSE LET cuts == {x \in 2..(Len(name) - 1) :
                        SubSeq(name, 1, x) \in DOMAIN Html5}
         IN  IF cuts = {} THEN <<"&">> \o name
             ELSE LET x == MaxOf(cuts)
                  IN  <<Html5[SubSeq(name, 1, x)]>> \o From(name, x + 1)

\* replace_charref(s) for a numeric reference with this code point
NumericCharref(code) ==
    IF code \in HtmlInvalidCodepoints THEN <<>> ELSE <<CharOfCode[code]>>

RECURSIVE html_unescape(_)
\* html.unescape(s): _charref.sub(_replace_charref, s) with _charref =
\* &(#[0-9]+;?|#[xX][0-9a-fA-F]+;?|[^\t\n\f <&#;]{1,32};?)
html_unescape(s) ==
    IF s = <<>> THEN <<>>
    ELSE IF s[1] # "&" THEN <<s[1]>> \o html_unescape(Tail(s))
    ELSE LET n      == Len(s)
             isNum  == n >= 3 /\ s[2] = "#" /\ s[3] \in Digit
             isHex  == n >= 4 /\ s[2] = "#" /\ s[3] \in {"x", "X"}
                         /\ s[4] \in HexDigit
             dEnd   == RunEnd(s, 3, Digit)
             hEnd   == RunEnd(s, 4, HexDigit)
             run    == StopIdx(s, 2, Html5NameStop)
             nEnd   == IF run > 34 THEN 34 ELSE run
             semi(e) == IF e <= n /\ s[e] = ";" THEN e + 1 ELSE e
         IN  IF isNum
             THEN NumericCharref(NumVal(SubSeq(s, 3, dEnd - 1), 10))
                    \o html_unescape(From(s, semi(dEnd)))
             ELSE IF isHex
             THEN NumericCharref(NumVal(SubSeq(s, 4, hEnd - 1), 16))
                    \o html_unescape(From(s, semi(hEnd)))
             ELSE IF nEnd > 2
             THEN NamedCharref(SubSeq(s, 2, semi(nEnd) - 1))
                    \o html_unescape(From(s, semi(nEnd)))
             ELSE <<"&">> \o html_unescape(Tail(s))

(***************************************************************************)
(* The tree: SSMLText and SSMLTag                                          *)
(***************************************************************************)
\* SSMLText(text)
SSMLText(text) == [kind |-> "text", text |-> text]

\* SSMLTag(name, attributes, children); attributes is the dict as its
\* sequence of <<key, value>> in insertion order
SSMLTag(name, attributes, children) ==
    [kind |-> "tag", name |-> name, attributes |-> attributes,
     children |-> children]

\* attrs[key] = v on a dict: a key already present keeps its place
DictSet(d, key, v) ==
    IF \E k \in 1..Len(d) : d[k][1] = key
    THEN [k \in 1..Len(d) |-> IF d[k][1] = key THEN <<key, v>> ELSE d[k]]
    ELSE Append(d, <<key, v>>)

\* dict equality: the same keys with the same values, in any order
DictEq(d, e) == {d[k] : k \in 1..Len(d)} = {e[k] : k \in 1..Len(e)}

RECURSIVE NodeEq(_, _)
\* SSMLText.__eq__ and SSMLTag.__eq__
NodeEq(a, b) ==
    IF a.kind = "text" THEN b.kind = "text" /\ a.text = b.text
    ELSE /\ b.kind = "tag"
         /\ a.name = b.name
         /\ DictEq(a.attributes, b.attributes)
         /\ Len(a.children) = Len(b.children)
         /\ \A k \in 1..Len(a.children) : NodeEq(a.children[k], b.children[k])

RECURSIVE BuildAttrs(_, _)
\* the loop over elem.attrib.items() in build
BuildAttrs(attrib, attrs) ==
    IF attrib = <<>> THEN attrs
    ELSE BuildAttrs(Tail(attrib),
                    DictSet(attrs,
                            str_replace(Head(attrib)[1], placeholder, <<":">>),
                            Head(attrib)[2]))

\* SSMLText(html.unescape(text)) appended when text is not blank
TextChild(text) ==
    IF text # <<>> /\ NonBlank(text)
    THEN <<SSMLText(html_unescape(text))>>
    ELSE <<>>

RECURSIVE build(_)
RECURSIVE BuildChildren(_)
\* the loop over list(elem) in build: each child, then its tail
BuildChildren(elems) ==
    IF elems = <<>> THEN <<>>
    ELSE <<build(Head(elems))>> \o TextChild(Head(elems).tail)
           \o BuildChildren(Tail(elems))

\* build(elem)
build(elem) ==
    SSMLTag(elem.tag, BuildAttrs(elem.attrib, <<>>),
            TextChild(elem.text) \o BuildChildren(elem.children))

(***************************************************************************)
(* parseSSML and ssmlNodeToText                                            *)
(***************************************************************************)
S_speak == <<"s","p","e","a","k">>

S_root == <<"r","o","o","t">>

None == [kind |-> "None"]

\* the exception classes the code can raise, each with its base class
BaseClass == [Exception |-> "BaseException", SyntaxError |-> "Exception",
              ParseError |-> "SyntaxError"]

RECURSIVE IsInstance(_, _)
\* isinstance(an exception of class cls, base)
IsInstance(cls, base) ==
    \/ cls = base
    \/ cls \in DOMAIN BaseClass /\ IsInstance(BaseClass[cls], base)

\* raise Exception(msg)
Raise(msg) == [ok |-> FALSE, type |-> "Exception", msg |-> msg]

\* f"<root>{replaced}</root>"
Wrap(replaced) ==
    <<"<">> \o S_root \o <<">">> \o replaced \o <<"<", "/">> \o S_root \o <<">">>

\* the parser's error wrapped into the rules' own kind
ParseErrorOutcome_Wrapped == Raise("ParseError")

\* except ET.ParseError: raise
ParseErrorOutcome == [ok |-> FALSE, type |-> "ParseError", msg |-> "ParseError"]

\* root_elem.text and root_elem.text.strip() != ""
StrayText(root_elem) == root_elem.text # <<>> /\ NonBlank(root_elem.text)

\* len(children) != 1
WrongChildCount(root_elem) == Len(root_elem.children) # 1

\* the check of the tail left out
StrayTail_Unchecked(first_child) == FALSE

\* first_child.tail and first_child.tail.strip() != ""
StrayTail(first_child) == first_child.tail # <<>> /\ NonBlank(first_child.tail)

\* the check of the name left out
NotSpeak_Unchecked(parsed) == FALSE

\* parsed.name != "speak"
NotSpeak(parsed) == parsed.name # S_speak

\* the check of the rebuilt node's name and the return
CheckName(parsed) ==
    IF NotSpeak(parsed)
    THEN Raise("Top-level tag must be <speak>")
    ELSE [ok |-> TRUE, node |-> parsed]

\* the checks of the parsed wrapper and the rebuild
CheckAndBuild(root_elem) ==
    IF StrayText(root_elem)
    THEN Raise("Invalid top-level text")
    ELSE IF WrongChildCount(root_elem)
    THEN Raise("Multiple top-level tags or missing speak tag")
    ELSE IF StrayTail(root_elem.children[1])
    THEN Raise("Invalid top-level text")
    ELSE CheckName(build(root_elem.children[1]))

\* the outcome of the try block around ET.fromstring and of what follows it
AfterParse(parse) ==
    IF ~parse.ok THEN ParseErrorOutcome ELSE CheckAndBuild(parse.elem)

\* parseSSML(ssml): [ok, node] or [ok, type, msg]
parseSSML(ssml) ==
    IF HasSingleQuotedAttr(ssml)
    THEN Raise("single-quoted attributes are not allowed")
    ELSE AfterParse(ET_fromstring(Wrap(
             escape_colon_names(normalize_tag_whitespace(ssml)))))

RECURSIVE JoinAttrs(_)
\* " ".join(f'{k}="{v}"' for k, v in node.attributes.items())
JoinAttrs(attributes) ==
    IF attributes = <<>> THEN <<>>
    ELSE Head(attributes)[1] \o <<"=", "\"">> \o Head(attributes)[2] \o <<"\"">>
           \o (IF Len(attributes) > 1 THEN <<" ">> ELSE <<>>)
           \o JoinAttrs(Tail(attributes))

RECURSIVE ssmlNodeToText(_)
RECURSIVE JoinChildren(_)
\* "".join(ssmlNodeToText(c) for c in node.children)
JoinChildren(children) ==
    IF children = <<>> THEN <<>>
    ELSE ssmlNodeToText(Head(children)) \o JoinChildren(Tail(children))

\* ssmlNodeToText(node)
ssmlNodeToText(node) ==
    IF node.kind = "text" THEN node.text
    ELSE LET attrs == IF node.attributes # <<>>
                      THEN <<" ">> \o JoinAttrs(node.attributes)
                      ELSE <<>>
         IN  <<"<">> \o node.name \o attrs \o <<">">>
               \o JoinChildren(node.children)
               \o <<"<", "/">> \o node.name \o <<">">>

(***************************************************************************)
(* The inputs                                                              *)
(***************************************************************************)
\* the most top-level elements an input is made of
MaxTop == 2

\* the most items between <speak> and </speak>
MaxItems == 2

\* the longest run of blanks padded into a tag
MaxPad == 2

RECURSIVE Joined(_, _)
\* the concatenations of at most n members of S
Joined(S, n) ==
    IF n = 0 THEN {<<>>}
    ELSE LET shorter == Joined(S, n - 1)
         IN  shorter \cup {a \o b : a \in S, b \in shorter}

\* text around the top-level elements
TopTexts ==
    { <<>>,
      <<" ">>,
      <<"x">>,
      <<"&", "#", "3", "2", ";">> }

\* top-level elements, well-formed or not
TopElems ==
    { <<"<", "s", "p", "e", "a", "k", ">", "<", "/", "s", "p", "e", "a", "k", ">">>,
      <<"<", "S", "p", "e", "a", "k", ">", "<", "/", "S", "p", "e", "a", "k", ">">>,
      <<"<", "p", ">", "h", "i", "<", "/", "p", ">">>,
      <<"<", "s", "p", "e", "a", "k", ">">>,
      <<"<", "s", "p", "e", "a", "k", "/", ">">>,
      <<"<", "/", "p", ">">> }

TopInputs ==
    {pre \o mid \o post : pre \in TopTexts, mid \in Joined(TopElems, MaxTop),
                          post \in TopTexts}

\* attribute names
AttrNames ==
    { <<"a">>,
      <<"x", "m", "l", ":", "l", "a", "n", "g">>,
      <<"a", "_", "_", "C", "O", "L", "O", "N", "_", "_", "b">>,
      <<"x", "m", "l", "n", "s">> }

\* the sign between an attribute name and its value
AttrEquals ==
    { <<"=">>,
      <<" ", "=", " ">> }

\* the quotes around an attribute value
AttrQuotes ==
    { <<"\"">>,
      <<"'">> }

\* attribute values
AttrValues ==
    { <<"e", "n", "-", "U", "S">>,
      <<"x", " ", ">">>,
      <<"k", ":", "v", "=", "1">>,
      <<"&", "a", "m", "p", ";">>,
      <<>> }

Attrs ==
    {<<" ">> \o n \o e \o q \o v \o q :
        n \in AttrNames, e \in AttrEquals, q \in AttrQuotes, v \in AttrValues}

\* a speak element, or a p element inside it, with one attribute
AttrInputs ==
    {<<"<", "s", "p", "e", "a", "k">> \o a \o <<">", "<", "/", "s", "p", "e", "a", "k", ">">> : a \in Attrs}
      \cup {<<"<", "s", "p", "e", "a", "k", ">", "<", "p">> \o a \o <<">", "h", "i", "<", "/", "p", ">", "<", "/", "s", "p", "e", "a", "k", ">">> : a \in Attrs}

\* what an input puts between <speak> and </speak>
BodyItems ==
    { <<" ">>,
      <<"h", "i">>,
      <<"&", "a", "m", "p", ";">>,
      <<"l", "t", ";">>,
      <<"#", "3", "2", ";">>,
      <<"&", "#", "3", "2", ";">>,
      <<"<", "p", ">">>,
      <<"<", "/", "p", ">">>,
      <<"<", "p", "/", ">">>,
      <<"k", ":", "v", "=", "1">>,
      <<" ", ">", " ">> }

BodyInputs ==
    {<<"<", "s", "p", "e", "a", "k", ">">> \o b \o <<"<", "/", "s", "p", "e", "a", "k", ">">> : b \in Joined(BodyItems, MaxItems)}

\* the spec's and the docstrings' examples, and irregular spacings
Examples ==
    { <<"<", "s", "p", "e", "a", "k", ">", "<", "p", ">", "H", "e", "l", "l", "o", "<", "/", "p", ">", "<", "/", "s", "p", "e", "a", "k", ">">>,
      <<"<", " ", " ", "s", "p", "e", "a", "k", " ", " ", ">", "<", "/", " ", " ", "s", "p", "e", "a", "k", " ", " ", ">">>,
      <<"<", "s", "p", "e", "a", "k", ">", " ", " ", " ", "<", "p", ">", "h", "i", "<", "/", "p", ">", " ", " ", " ", "<", "/", "s", "p", "e", "a", "k", ">">>,
      <<"<", "s", "p", "e", "a", "k", ">", "a", " ", "&", "a", "m", "p", ";", " ", "b", "<", "/", "s", "p", "e", "a", "k", ">">>,
      <<"<", " ", "s", "p", "e", "a", "k", " ", " ", " ", ">", "<", " ", "p", " ", ">", "<", "/", " ", " ", "p", " ", ">", "<", "/", "s", "p", "e", "a", "k", " ", ">">>,
      <<"<", "s", "p", "e", "a", "k", " ", "x", "m", "l", ":", "l", "a", "n", "g", "=", "\"", "e", "n", "-", "U", "S", "\"", " ", "a", "=", "\"", "1", "\"", ">", "h", "i", "<", "/", "s", "p", "e", "a", "k", ">">>,
      <<"<", "s", "p", "e", "a", "k", " ", "a", ":", "b", "=", "\"", "1", "\"", " ", "a", "_", "_", "C", "O", "L", "O", "N", "_", "_", "b", "=", "\"", "2", "\"", ">", "<", "/", "s", "p", "e", "a", "k", ">">>,
      <<"<", "s", "p", "e", "a", "k", "\n", " ", "a", "=", "\"", "1", "\"", " ", " ", "b", "=", "\"", "x", " ", "y", "\"", "\t", ">", "\n", "<", "p", ">", "h", "i", "<", "/", "p", ">", "\r", "\n", "<", "/", "s", "p", "e", "a", "k", ">">>,
      <<"<", "s", "p", "e", "a", "k", " ", "a", "=", "\"", ">", "\"", " ", ">", "<", "p", "/", " ", ">", "h", "i", "<", "/", "s", "p", "e", "a", "k", ">">>,
      <<"<", "s", "p", "e", "a", "k", ">", "<", "p", " ", "x", "m", "l", ":", "l", "a", "n", "g", " ", "=", " ", "\"", "e", "n", "\"", ">", "a", "<", "/", "p", ">", "b", "<", "p", ">", "c", "<", "/", "p", ">", "d", "<", "/", "s", "p", "e", "a", "k", ">">>,
      <<"<", "s", "p", "e", "a", "k", " ", "a", "=", "\"", "1", "\"", " ", "a", "=", "\"", "2", "\"", ">", "<", "/", "s", "p", "e", "a", "k", ">">>,
      <<"<", "s", "p", "e", "a", "k", ">", "i", "t", "'", "s", " ", "=", " ", "'", "x", "'", "<", "/", "s", "p", "e", "a", "k", ">">>,
      <<"<", " ", "/", "s", "p", "e", "a", "k", ">">>,
      <<"<", "s", "p", "e", "a", "k", ">", "&", "a", "m", "p", ";", "l", "t", ";", "p", "&", "a", "m", "p", ";", "g", "t", ";", "<", "/", "s", "p", "e", "a", "k", ">">> }

Inputs == TopInputs \cup AttrInputs \cup BodyInputs \cup Examples

(***************************************************************************)
(* The state machine: a caller hands an input to parseSSML and, when it    *)
(* returns a tree, hands the tree to ssmlNodeToText.                       *)
(***************************************************************************)
VARIABLES ssml,     \* the input
          pc,       \* "ready", "parsed", "failed" or "serialized"
          result,   \* the SSMLTag parseSSML returned, or None
          error,    \* the exception parseSSML raised, or None
          text      \* the str ssmlNodeToText returned, or None

vars == <<ssml, pc, result, error, text>>

Init ==
    /\ ssml \in Inputs
    /\ pc = "ready"
    /\ result = None
    /\ error = None
    /\ text = None

\* parseSSML returns r.node or raises the exception r
Return(r) ==
    IF r.ok
    THEN /\ pc' = "parsed"
         /\ result' = r.node
         /\ error' = None
    ELSE /\ pc' = "failed"
         /\ result' = None
         /\ error' = [kind |-> "error", type |-> r.type, msg |-> r.msg]

\* result = parseSSML(ssml), or the exception it raises
Call_parseSSML ==
    /\ pc = "ready"
    /\ Return(parseSSML(ssml))
    /\ UNCHANGED <<ssml, text>>

\* text = ssmlNodeToText(result)
Call_ssmlNodeToText ==
    /\ pc = "parsed"
    /\ text' = [kind |-> "str", value |-> ssmlNodeToText(result)]
    /\ pc' = "serialized"
    /\ UNCHANGED <<ssml, result, error>>

Next == Call_parseSSML \/ Call_ssmlNodeToText

Spec == Init /\ [][Next]_vars

(***************************************************************************)
(* The input as written: its tags and the text between them, read off the  *)
(* input itself (a tag runs from a '<' to the first '>' outside a quoted   *)
(* attribute value).  The claims are stated against this reading.          *)
(***************************************************************************)
Returned == pc \in {"parsed", "serialized"}

RECURSIVE TagEnd(_, _, _)
\* the index of the '>' that ends a tag, scanning from j with q the quote of
\* the attribute value j is inside ("" outside any); 0 when the tag never ends
TagEnd(s, j, q) ==
    IF j > Len(s) THEN 0
    ELSE IF q # "" THEN TagEnd(s, j + 1, IF s[j] = q THEN "" ELSE q)
    ELSE IF s[j] = ">" THEN j
    ELSE IF s[j] \in {"\"", "'"} THEN TagEnd(s, j + 1, s[j])
    ELSE TagEnd(s, j + 1, "")

RECURSIVE Tokens(_, _)
\* the tags and the runs of text of s from index i on, in document order
Tokens(s, i) ==
    IF i > Len(s) THEN <<>>
    ELSE LET e == TagEnd(s, i + 1, "")
             t == StopIdx(s, i + 1, {"<"})
         IN  IF s[i] = "<" /\ e # 0
             THEN <<[kind |-> "tag", str |-> SubSeq(s, i, e), at |-> i]>>
                    \o Tokens(s, e + 1)
             ELSE <<[kind |-> "text", str |-> SubSeq(s, i, t - 1), at |-> i]>>
                    \o Tokens(s, t)

\* the index in a tag of the first character of its name
NameStart(tag) ==
    LET a == RunEnd(tag, 2, PySpace)
    IN  IF tag[a] = "/" THEN RunEnd(tag, a + 1, PySpace) ELSE a

\* the index in a tag just after its name
NameEnd(tag) == StopIdx(tag, NameStart(tag), PySpace \cup {"/", ">"})

WrittenName(tag) == SubSeq(tag, NameStart(tag), NameEnd(tag) - 1)

\* "end" for </name>, "empty" for <name ... />, "start" otherwise
TagKind(tag) ==
    LET a == RunEnd(tag, 2, PySpace)
        z == MaxOf({j \in 1..(Len(tag) - 1) : tag[j] \notin PySpace})
    IN  IF tag[a] = "/" THEN "end"
        ELSE IF tag[z] = "/" THEN "empty"
        ELSE "start"

RECURSIVE WrittenAttrsFrom(_, _)
\* the attributes written in a tag from index p on: <<name, value>> with the
\* value as it stands between its quotes
WrittenAttrsFrom(tag, p) ==
    LET q == RunEnd(tag, p, PySpace)
        e == StopIdx(tag, q, PySpace \cup {"=", "/", ">"})
        r == RunEnd(tag, e, PySpace)
        t == RunEnd(tag, r + 1, PySpace)
        u == IF t <= Len(tag) THEN IndexOf(tag, t + 1, tag[t]) ELSE 0
    IN  IF /\ e > q
           /\ r <= Len(tag) /\ tag[r] = "="
           /\ t <= Len(tag) /\ tag[t] \in {"\"", "'"}
           /\ u # 0
        THEN <<<<SubSeq(tag, q, e - 1), SubSeq(tag, t + 1, u - 1)>>>>
               \o WrittenAttrsFrom(tag, u + 1)
        ELSE <<>>

WrittenAttrs(tag) == WrittenAttrsFrom(tag, NameEnd(tag))

RECURSIVE CharData(_)
\* text with each character reference replaced, once, by what it denotes
CharData(raw) ==
    IF raw = <<>> THEN <<>>
    ELSE LET r == XmlReference(raw, 1)
         IN  IF raw[1] = "&" /\ r.ok
             THEN <<r.ch>> \o CharData(From(raw, r.pos))
             ELSE <<raw[1]>> \o CharData(Tail(raw))

RECURSIVE TopScan(_, _, _)
\* over the tokens: the elements that open at depth 0, whether non-blank
\* character data stands at depth 0, whether an end tag has no start tag, and
\* the depth at the end
TopScan(toks, depth, acc) ==
    IF toks = <<>> THEN [acc EXCEPT !.depth = depth]
    ELSE LET t == Head(toks)
             k == IF t.kind = "tag" THEN TagKind(t.str) ELSE "text"
         IN  IF k = "text"
             THEN TopScan(Tail(toks), depth,
                    IF depth = 0 /\ NonBlank(CharData(t.str))
                    THEN [acc EXCEPT !.stray = TRUE] ELSE acc)
             ELSE IF k = "end"
             THEN IF depth = 0
                  THEN TopScan(Tail(toks), 0, [acc EXCEPT !.unopened = TRUE])
                  ELSE TopScan(Tail(toks), depth - 1, acc)
             ELSE TopScan(Tail(toks), IF k = "start" THEN depth + 1 ELSE depth,
                    IF depth = 0
                    THEN [acc EXCEPT !.tops = Append(@, WrittenName(t.str))]
                    ELSE acc)

TopLevel(s) ==
    TopScan(Tokens(s, 1), 0,
            [tops |-> <<>>, stray |-> FALSE, unopened |-> FALSE, depth |-> 0])

\* a start tag that is never closed, or an end tag that closes nothing
Unbalanced(s) == TopLevel(s).unopened \/ TopLevel(s).depth # 0

\* the pattern = '...' with optional blanks after the '=', stated on indices
SingleQuotedWritten(s) ==
    \E i, j, k \in 1..Len(s) :
        /\ i < j /\ j < k
        /\ s[i] = "=" /\ s[j] = "'" /\ s[k] = "'"
        /\ \A m \in (i + 1)..(j - 1) : s[m] \in PySpace

(***************************************************************************)
(* The claims                                                              *)
(***************************************************************************)
\* C1: whenever parseSSML returns a tree, the input had exactly one top-level
\* element and only blank character data around it; so an input with no
\* top-level element, with two or more, or with non-blank text outside the
\* single one, fails
C1_OneTopLevelElement ==
    Returned => /\ Len(TopLevel(ssml).tops) = 1
                /\ ~TopLevel(ssml).stray

\* an input with two top-level elements has been refused for that reason
C1_Witness ==
    /\ pc = "failed"
    /\ Len(TopLevel(ssml).tops) = 2
    /\ ~Unbalanced(ssml)
    /\ error.msg = "Multiple top-level tags or missing speak tag"

\* C2: whenever parseSSML returns, the node is an SSMLTag named exactly
\* "speak", and so was the input's top-level element: an input whose only
\* top-level element has another name fails
C2_RootIsSpeak ==
    Returned => /\ result.kind = "tag"
                /\ result.name = S_speak
                /\ TopLevel(ssml).tops = <<S_speak>>

\* a well-formed input whose only top-level element is named Speak has been
\* refused
C2_Witness ==
    /\ pc = "failed"
    /\ TopLevel(ssml).tops = <<<<"S", "p", "e", "a", "k">>>>
    /\ error.msg = "Top-level tag must be <speak>"

\* C3: an input that contains = '...' (blanks allowed after the '=') fails,
\* with the single-quote reason, whatever else it holds
C3_SingleQuotedRejected ==
    (pc # "ready" /\ SingleQuotedWritten(ssml)) =>
        /\ pc = "failed"
        /\ error.type = "Exception"
        /\ error.msg = "single-quoted attributes are not allowed"

\* an input with blanks between the '=' and the single quote has been refused
C3_Witness ==
    /\ pc = "failed"
    /\ error.msg = "single-quoted attributes are not allowed"
    /\ \E i \in 1..(Len(ssml) - 1) : ssml[i] = "=" /\ ssml[i + 1] = " "
    /\ ~Unbalanced(ssml)

\* the reasons of the four rules the code itself enforces
RuleReasons ==
    {"single-quoted attributes are not allowed", "Invalid top-level text",
     "Multiple top-level tags or missing speak tag",
     "Top-level tag must be <speak>"}

\* C4 as claimed: every failure is of the one kind the rules raise, the XML
\* parser's errors included (wrapped)
C4_SingleErrorKind ==
    pc = "failed" => error.type = "Exception"

\* C4 as amended: every failure is an Exception, but of two kinds: the four
\* rules raise a plain Exception with their reason, and an error of the XML
\* parser (an input whose tags do not balance, for one) is propagated as the
\* library's ParseError, not wrapped
C4_TwoErrorKinds ==
    pc = "failed" =>
        /\ IsInstance(error.type, "Exception")
        /\ error.type \in {"Exception", "ParseError"}
        /\ error.type = "Exception" <=> error.msg \in RuleReasons
        /\ (Unbalanced(ssml) /\ ~SingleQuotedWritten(ssml))
              => error.type = "ParseError"

\* an input with an unclosed element has failed with the library's ParseError
C4_Witness ==
    /\ pc = "failed"
    /\ error.type = "ParseError"
    /\ Unbalanced(ssml)

\* the blanks padded into tags
PadChars == {" ", "\n", "\f"}

RECURSIVE Repeat(_, _)
\* n times the character c
Repeat(c, n) == IF n = 0 THEN <<>> ELSE <<c>> \o Repeat(c, n - 1)

Pads == {Repeat(c, n) : c \in PadChars, n \in 1..MaxPad}

\* the places of a tag (that starts at index at of the input) where the claim
\* pads: after its '<' or '</', before its '>', after the name of a tag with
\* attributes; each the index the padding is inserted before
TagPadPoints(tag, at) ==
    LET a == RunEnd(tag, 2, PySpace)
    IN  {IF tag[a] = "/" THEN at + a ELSE at + 1, at + Len(tag) - 1}
          \cup (IF TagKind(tag) # "end" /\ WrittenAttrs(tag) # <<>>
                THEN {at + NameEnd(tag) - 1} ELSE {})

PadPoints(s) ==
    LET toks == Tokens(s, 1)
    IN  UNION {IF toks[k].kind = "tag"
               THEN TagPadPoints(toks[k].str, toks[k].at) ELSE {} :
               k \in 1..Len(toks)}

\* s with w inserted before index i
InsertAt(s, i, w) == SubSeq(s, 1, i - 1) \o w \o From(s, i)

RECURSIVE InsertAll(_, _, _)
\* s with w inserted before every index of the set at
InsertAll(s, at, w) ==
    IF at = {} THEN s
    ELSE LET i == MaxOf(at) IN InsertAll(InsertAt(s, i, w), at \ {i}, w)

\* the input padded at one place, or at all of them
PadVariants(s) ==
    {InsertAt(s, i, w) : i \in PadPoints(s), w \in Pads}
      \cup {InsertAll(s, PadPoints(s), w) : w \in Pads}

\* parseSSML(v) returns a tree equal to node
ParsesTo(r, node) == r.ok /\ NodeEq(r.node, node)

\* C5 as claimed: when an input parses, the input with blanks padded after a '<' or '</',
\* before a '>', or after the name of a tag with attributes parses too, to an
\* equal tree
C5_PaddingInsignificant ==
    Returned => \A v \in PadVariants(ssml) : ParsesTo(parseSSML(v), result)

\* the padded example of the specification has parsed, to the tree of
\* <speak></speak>
C5_Witness ==
    /\ pc = "parsed"
    /\ ssml = <<"<", " ", " ", "s", "p", "e", "a", "k", " ", " ", ">", "<", "/", " ", " ", "s", "p", "e", "a", "k", " ", " ", ">">>
    /\ ssml \in PadVariants(<<"<", "s", "p", "e", "a", "k", ">", "<", "/", "s", "p", "e", "a", "k", ">">>)
    /\ ParsesTo(parseSSML(<<"<", "s", "p", "e", "a", "k", ">", "<", "/", "s", "p", "e", "a", "k", ">">>), result)

RECURSIVE Tags(_)
\* the nodes of a tree that are tags, in document order
Tags(node) ==
    IF node.kind = "text" THEN <<>>
    ELSE <<node>> \o Concat([k \in 1..Len(node.children) |->
                               Tags(node.children[k])])

RECURSIVE Texts(_)
\* the payloads of the SSMLText nodes of a tree, in document order
Texts(node) ==
    IF node.kind = "text" THEN <<node.text>>
    ELSE Concat([k \in 1..Len(node.children) |-> Texts(node.children[k])])

RECURSIVE Select(_, _)
\* the tokens of a kind: "open" for start and empty-element tags
Select(toks, kind) ==
    IF toks = <<>> THEN <<>>
    ELSE LET t == Head(toks)
             k == IF t.kind = "text" THEN "text"
                  ELSE IF TagKind(t.str) = "end" THEN "end" ELSE "open"
         IN  (IF k = kind THEN <<t.str>> ELSE <<>>) \o Select(Tail(toks), kind)

\* the names of a sequence of <<name, value>>
Names(attrs) == {attrs[k][1] : k \in 1..Len(attrs)}

\* C6 as claimed: in a returned tree each tag's keys are the attribute names
\* written in the input's corresponding tag
C6_KeysAsWritten ==
    Returned =>
        LET written == Select(Tokens(ssml, 1), "open")
            tags    == Tags(result)
        IN  /\ Len(tags) = Len(written)
            /\ \A k \in 1..Len(tags) :
                  Names(tags[k].attributes) = Names(WrittenAttrs(written[k]))

\* C7 as claimed: no SSMLText of a returned tree is empty or blank
C7_NoBlankText ==
    Returned => \A k \in 1..Len(Texts(result)) : NonBlank(Texts(result)[k])

RECURSIVE ElementTexts(_)
\* the non-blank text and tails inside an element as the XML parser reports
\* them, each reference replaced once, in document order
ElementTexts(elem) ==
    (IF NonBlank(elem.text) THEN <<elem.text>> ELSE <<>>)
      \o Concat([k \in 1..Len(elem.children) |->
                   ElementTexts(elem.children[k])
                     \o (IF NonBlank(elem.children[k].tail)
                         THEN <<elem.children[k].tail>> ELSE <<>>)])

\* the wrapper element parseSSML builds its tree from
Parsed(s) ==
    ET_fromstring(Wrap(escape_colon_names(normalize_tag_whitespace(s)))).elem

\* C8 as claimed: each SSMLText carries the character data with every
\* reference replaced once, and ssmlNodeToText emits it as it is
C8_DecodedOnce ==
    /\ Returned => Texts(result) = ElementTexts(Parsed(ssml).children[1])
    /\ (pc = "serialized" /\ Len(Texts(result)) = 1 /\ Len(Tags(result)) = 1
          /\ result.attributes = <<>>)
         => text.value = <<"<">> \o S_speak \o <<">">> \o Texts(result)[1]
                           \o <<"<", "/">> \o S_speak \o <<">">>

RECURSIVE DropBlankText(_)
\* the tokens put together again without the blank runs of text
DropBlankText(toks) ==
    IF toks = <<>> THEN <<>>
    ELSE (IF Head(toks).kind = "text" /\ ~NonBlank(Head(toks).str)
          THEN <<>> ELSE Head(toks).str) \o DropBlankText(Tail(toks))

\* s with tag whitespace normalized and whitespace-only text removed (the
\* colons of attribute names stand in s as they will be restored)
Canon(s) == DropBlankText(Tokens(normalize_tag_whitespace(s), 1))

Values(attrs) == [k \in 1..Len(attrs) |-> attrs[k][2]]

\* C10 as claimed: each attribute value of a returned tree is the value
\* written between the quotes (references replaced), and each SSMLText is the
\* input's text between tags after reference decoding: preprocessing alters
\* neither
C10_ValuesAndTextUntouched ==
    Returned =>
        LET written == Select(Tokens(ssml, 1), "open")
            tags    == Tags(result)
            texts   == Select(Tokens(ssml, 1), "text")
            kept    == SelectSeq(texts, LAMBDA t : NonBlank(CharData(t)))
        IN  /\ Len(tags) = Len(written)
            /\ \A k \in 1..Len(tags) :
                  Values(tags[k].attributes)
                    = [j \in 1..Len(WrittenAttrs(written[k])) |->
                         CharData(WrittenAttrs(written[k])[j][2])]
            /\ Texts(result)
                 = [k \in 1..Len(kept) |-> html_unescape(CharData(kept[k]))]

=============================================================================
